---- MODULE Spec2Model ----
(***************************************************************************)
(* A model of boule (src/src/main.rs): the ball-sorting board (State), the *)
(* application around it (BouleApp) and the frame loop that drives it.     *)
(*                                                                         *)
(* Three specifications share the variables:                               *)
(*   SpecBoard  State::new followed by arbitrary State::move_ball calls,   *)
(*              for valid configurations;                                  *)
(*   SpecNew    State::new alone, for every configuration, the invalid     *)
(*              ones included;                                             *)
(*   Spec       the application: one action per kind of frame of           *)
(*              BouleApp::update, plus save and restart of the process.    *)
(***************************************************************************)
EXTENDS Integers, Sequences, FiniteSets, TLC

(***************************************************************************)
(* Bounds of the model.                                                    *)
(***************************************************************************)
\* SpecBoard/SpecNew draw column_count from ..MaxColumnCount
MaxColumnCount == 4
\* SpecBoard/SpecNew draw column_capacity from ..MaxColumnCapacity
MaxColumnCapacity == 3
\* boards of more than MaxSlots slots are not constructed
MaxSlots == 8
\* SpecBoard stops calling move_ball once play_count reaches MaxMoves
MaxMoves == 4
\* Spec delivers no move to a board whose play_count has reached MaxPlay
MaxPlay == 3
\* Spec offers the colour labels MinColors..MaxColors (the source: ..=MAX_STYLES)
MaxColors == 4
\* Spec offers the height labels MinHeight..MaxHeight (the source: ..=20)
MaxHeight == 3

\* SpecLedger: the scores 0..MaxScore next to 25, 30 and 40, and the number
\* of records made
MaxScore == 1

MaxRecords == 4

\* SpecLate lets MaxLate frames run ahead of a save that is due
MaxLate == 1

(***************************************************************************)
(* Constants of the program.                                               *)
(***************************************************************************)
DefaultColumnCount == 7

DefaultColumnCapacity == 7

MinColors == 3

MinHeight == 2

(***************************************************************************)
(* Option<T>: None, Some(x).                                               *)
(***************************************************************************)
None == <<>>

Some(x) == <<x>>

unwrap(o) == o[1]

(***************************************************************************)
(* enum Slot { Empty, Ball(usize) }: Empty is -1, Ball(c) is c >= 0.       *)
(***************************************************************************)
Empty == -1

Ball(color_idx) == color_idx

saturating_sub(a, b) == IF a >= b THEN a - b ELSE 0

Max(S) == CHOOSE x \in S : \A y \in S : y <= x

Min(S) == CHOOSE x \in S : \A y \in S : x <= y

(***************************************************************************)
(* State: column_count, column_capacity, play_count and the column-major   *)
(* vector slots; slots[column * column_capacity + row] of the source is    *)
(* slots[column * column_capacity + row + 1] here (sequences start at 1).  *)
(***************************************************************************)
slot_index(s, row, column) == column * s.column_capacity + row + 1

slot(s, row, column) == s.slots[slot_index(s, row, column)]

\* the vector before the shuffle: column col < color_count holds Ball(col)
filled_slots(column_count, column_capacity) ==
    LET color_count == saturating_sub(column_count, 1)
    IN  [i \in 1..(column_count * column_capacity) |->
            IF (i - 1) \div column_capacity < color_count
            THEN Ball((i - 1) \div column_capacity)
            ELSE Empty]

RECURSIVE arrangements(_)
\* every sequence that holds each value v exactly bag[v] times
arrangements(bag) ==
    LET left == {v \in DOMAIN bag : bag[v] > 0}
    IN  IF left = {}
        THEN {<<>>}
        ELSE UNION {{<<v>> \o rest : rest \in arrangements([bag EXCEPT ![v] = @ - 1])} :
                        v \in left}

\* slots[0..n].shuffle(rng): every rearrangement of the first n elements
shuffle(slots, n) ==
    LET values == {slots[i] : i \in 1..n}
        bag == [v \in values |-> Cardinality({i \in 1..n : slots[i] = v})]
    IN  {prefix \o SubSeq(slots, n + 1, Len(slots)) : prefix \in arrangements(bag)}

\* mutant of new: the shuffle runs over the whole vector, free column included
new_shuffling_all(column_count, column_capacity) ==
    LET slots == filled_slots(column_count, column_capacity)
    IN  {[column_count |-> column_count,
          column_capacity |-> column_capacity,
          play_count |-> 0,
          slots |-> shuffled] :
            shuffled \in shuffle(slots, column_count * column_capacity)}

\* mutant of new: the two arguments are taken in the other order
new_swapping_arguments(column_count, column_capacity) ==
    LET color_count == saturating_sub(column_capacity, 1)
        slots == filled_slots(column_capacity, column_count)
    IN  {[column_count |-> column_capacity,
          column_capacity |-> column_count,
          play_count |-> 0,
          slots |-> shuffled] :
            shuffled \in shuffle(slots, color_count * column_count)}

new(column_count, column_capacity) ==
    LET color_count == saturating_sub(column_count, 1)
        slots == filled_slots(column_count, column_capacity)
    IN  {[column_count |-> column_count,
          column_capacity |-> column_capacity,
          play_count |-> 0,
          slots |-> shuffled] :
            shuffled \in shuffle(slots, color_count * column_capacity)}

\* mutant of first_empty: the scan runs from row 0 (the .rev() is dropped)
first_empty_from_top(s, column) ==
    LET rows == {row \in 0..(s.column_capacity - 1) : slot(s, row, column) = Empty}
    IN  IF rows = {} THEN None ELSE Some(Min(rows))

first_empty(s, column) ==
    LET rows == {row \in 0..(s.column_capacity - 1) : slot(s, row, column) = Empty}
    IN  IF rows = {} THEN None ELSE Some(Max(rows))

first_ball(s, column) ==
    LET rows == {row \in 0..(s.column_capacity - 1) : slot(s, row, column) # Empty}
    IN  IF rows = {} THEN None ELSE Some(Min(rows))

\* mutant of move_ball: the vacated slot is not set to Empty
move_ball_copying(s, from_column, to_column) ==
    IF from_column = to_column
    THEN s
    ELSE LET from == first_ball(s, from_column)
             to == first_empty(s, to_column)
         IN  IF from # None /\ to # None
             THEN LET ball == slot(s, unwrap(from), from_column)
                      placed == [s.slots EXCEPT ![slot_index(s, unwrap(to), to_column)] = ball]
                  IN  [s EXCEPT !.slots = placed, !.play_count = @ + 1]
             ELSE s

\* mutant of move_ball: the lowest ball of the column is taken, not the topmost
move_ball_from_bottom(s, from_column, to_column) ==
    IF from_column = to_column
    THEN s
    ELSE LET from == first_ball(s, from_column)
             to == first_empty(s, to_column)
         IN  IF from # None /\ to # None
             THEN LET from_row == s.column_capacity - 1
                      ball == slot(s, from_row, from_column)
                      placed == [s.slots EXCEPT ![slot_index(s, unwrap(to), to_column)] = ball]
                      vacated == [placed EXCEPT ![slot_index(s, from_row, from_column)] = Empty]
                  IN  [s EXCEPT !.slots = vacated, !.play_count = @ + 1]
             ELSE s

\* mutant of move_ball: the from_column == to_column test is dropped
move_ball_same_column(s, from_column, to_column) ==
    LET from == first_ball(s, from_column)
        to == first_empty(s, to_column)
    IN  IF from # None /\ to # None
        THEN LET ball == slot(s, unwrap(from), from_column)
                 placed == [s.slots EXCEPT ![slot_index(s, unwrap(to), to_column)] = ball]
                 vacated == [placed EXCEPT ![slot_index(s, unwrap(from), from_column)] = Empty]
             IN  [s EXCEPT !.slots = vacated, !.play_count = @ + 1]
        ELSE s

\* mutant of move_ball: play_count counts every call between two columns
move_ball_counting_calls(s, from_column, to_column) ==
    IF from_column = to_column
    THEN s
    ELSE LET from == first_ball(s, from_column)
             to == first_empty(s, to_column)
         IN  IF from # None /\ to # None
             THEN LET from_row == unwrap(from)
                      to_row == unwrap(to)
                      ball == slot(s, from_row, from_column)
                      placed == [s.slots EXCEPT ![slot_index(s, to_row, to_column)] = ball]
                      vacated == [placed EXCEPT ![slot_index(s, from_row, from_column)] = Empty]
                  IN  [s EXCEPT !.slots = vacated, !.play_count = @ + 1]
             ELSE [s EXCEPT !.play_count = @ + 1]

move_ball(s, from_column, to_column) ==
    IF from_column = to_column
    THEN s
    ELSE LET from == first_ball(s, from_column)
             to == first_empty(s, to_column)
         IN  IF from # None /\ to # None
             THEN LET from_row == unwrap(from)
                      to_row == unwrap(to)
                      ball == slot(s, from_row, from_column)
                      placed == [s.slots EXCEPT ![slot_index(s, to_row, to_column)] = ball]
                      vacated == [placed EXCEPT ![slot_index(s, from_row, from_column)] = Empty]
                  IN  [s EXCEPT !.slots = vacated, !.play_count = @ + 1]
             ELSE s

\* mutant of is_winning: Empty slots are skipped when a column is compared
is_winning_ignoring_empty(s) ==
    IF \A col \in 0..(s.column_count - 1) :
          \A r1 \in 0..(s.column_capacity - 1), r2 \in 0..(s.column_capacity - 1) :
              (slot(s, r1, col) # Empty /\ slot(s, r2, col) # Empty)
                  => slot(s, r1, col) = slot(s, r2, col)
    THEN Some(s.play_count)
    ELSE None

\* return play count if winning
is_winning(s) ==
    IF \A col \in 0..(s.column_count - 1) :
          LET first == slot(s, 0, col)
          IN  \A row \in 1..(s.column_capacity - 1) : slot(s, row, col) = first
    THEN Some(s.play_count)
    ELSE None

is_top(s, row, column) ==
    /\ \A r \in 0..(row - 1) : slot(s, r, column) = Empty
    /\ slot(s, row, column) # Empty

(***************************************************************************)
(* Variables.                                                              *)
(*   args   the (column_count, column_capacity) handed to State::new       *)
(*   board  Option<State>: the board under test (SpecBoard, SpecNew)       *)
(*   old    the board before the last call                                 *)
(*   last   the last call or event                                         *)
(*   app      the BouleApp (Spec)                                          *)
(*   payload  egui's drag-and-drop payload: Option<column>                 *)
(*   dragging whether a pointer drag is in progress                        *)
(*   storage  the value stored under "__app__": Option<snapshot>           *)
(***************************************************************************)
VARIABLES args, board, old, last, app, payload, dragging, storage, late

vars == <<args, board, old, last, app, payload, dragging, storage, late>>

appvars == <<app, payload, dragging, storage, late>>

(***************************************************************************)
(* BouleApp: column_count, column_capacity, state, history, auto_save.     *)
(* history is a map from (column_count, column_capacity) to a set.         *)
(***************************************************************************)
EmptyMap == [k \in {} |-> {}]

Default ==
    [column_count |-> DefaultColumnCount,
     column_capacity |-> DefaultColumnCapacity,
     state |-> None,
     history |-> EmptyMap,
     auto_save |-> FALSE]

\* mutant of history_insert: the inserted value replaces the scores of the key
history_insert_replacing(history, key, value) ==
    [k \in DOMAIN history \cup {key} |-> IF k = key THEN {value} ELSE history[k]]

\* history.entry(key).or_default().insert(value)
history_insert(history, key, value) ==
    [k \in DOMAIN history \cup {key} |->
        IF k = key
        THEN (IF key \in DOMAIN history THEN history[key] ELSE {}) \cup {value}
        ELSE history[k]]

\* Option<State>::as_ref().and_then(|s| s.is_winning())
and_then_is_winning(state) == IF state = None THEN None ELSE is_winning(unwrap(state))

\* setup_ui up to the PLAY button: colors and height are the labels clicked
\* in this frame (None: no click)
setup_ui(self, colors, height) ==
    LET color_count == IF colors # None
                       THEN unwrap(colors)
                       ELSE saturating_sub(self.column_count, 1)
    IN  [self EXCEPT !.column_count = color_count + 1,
                     !.column_capacity = IF height # None THEN unwrap(height) ELSE @]

\* mutant of drag_payload: a winning board still offers its balls for a drag
drag_payload_when_won(s, row, col, current) ==
    IF is_top(s, row, col) THEN Some(col) ELSE current

\* State::ui, the drag source: the payload after a drag started on (row, col)
drag_payload(s, row, col, current) ==
    IF is_top(s, row, col) /\ is_winning(s) = None THEN Some(col) ELSE current

\* State::ui, the drop target: other is the payload released over column col
drop_payload(s, other, col) ==
    IF other # None THEN move_ball(s, unwrap(other), col) ELSE s

\* mutant of update: the score is inserted in every frame that ends winning
update_recording_always(old_self, ui_self, reset) ==
    LET cleared == IF reset THEN [ui_self EXCEPT !.state = None] ELSE ui_self
        won == and_then_is_winning(cleared.state)
        insert == won # None
        key == <<cleared.column_count, cleared.column_capacity>>
        saved == IF insert
                 THEN [cleared EXCEPT !.history = history_insert(@, key, unwrap(won))]
                 ELSE cleared
    IN  [self |-> IF saved # old_self THEN [saved EXCEPT !.auto_save = TRUE] ELSE saved,
         inserted |-> IF insert THEN Some(<<key, unwrap(won)>>) ELSE None]

\* mutant of update: a reset takes history back to empty with the board
update_reset_clearing_history(old_self, ui_self, reset) ==
    LET cleared == IF reset
                   THEN [ui_self EXCEPT !.state = None, !.history = EmptyMap]
                   ELSE ui_self
        won == and_then_is_winning(cleared.state)
        insert == and_then_is_winning(old_self.state) = None /\ won # None
        key == <<cleared.column_count, cleared.column_capacity>>
        saved == IF insert
                 THEN [cleared EXCEPT !.history = history_insert(@, key, unwrap(won))]
                 ELSE cleared
    IN  [self |-> IF saved # old_self THEN [saved EXCEPT !.auto_save = TRUE] ELSE saved,
         inserted |-> IF insert THEN Some(<<key, unwrap(won)>>) ELSE None]

\* mutant of update: auto_save is assigned the outcome of the comparison
update_assigning_auto_save(old_self, ui_self, reset) ==
    LET cleared == IF reset THEN [ui_self EXCEPT !.state = None] ELSE ui_self
        won == and_then_is_winning(cleared.state)
        insert == and_then_is_winning(old_self.state) = None /\ won # None
        key == <<cleared.column_count, cleared.column_capacity>>
        saved == IF insert
                 THEN [cleared EXCEPT !.history = history_insert(@, key, unwrap(won))]
                 ELSE cleared
    IN  [self |-> [saved EXCEPT !.auto_save = (saved # old_self)],
         inserted |-> IF insert THEN Some(<<key, unwrap(won)>>) ELSE None]

\* update after the ui of the frame has run: ui_self is self as the ui left it,
\* reset what game_ui returned. The result: self at the end of the frame and
\* the (key, score) handed to history's insert, if any.
update(old_self, ui_self, reset) ==
    LET cleared == IF reset THEN [ui_self EXCEPT !.state = None] ELSE ui_self
        won == and_then_is_winning(cleared.state)
        insert == and_then_is_winning(old_self.state) = None /\ won # None
        key == <<cleared.column_count, cleared.column_capacity>>
        saved == IF insert
                 THEN [cleared EXCEPT !.history = history_insert(@, key, unwrap(won))]
                 ELSE cleared
    IN  [self |-> IF saved # old_self THEN [saved EXCEPT !.auto_save = TRUE] ELSE saved,
         inserted |-> IF insert THEN Some(<<key, unwrap(won)>>) ELSE None]

RECURSIVE ascending(_)
\* the iteration order of a BTreeSet
ascending(set) ==
    IF set = {} THEN <<>> ELSE <<Min(set)>> \o ascending(set \ {Min(set)})

\* mutant of serialize: history is skipped as auto_save is
serialize_skipping_history(self) ==
    [column_count |-> self.column_count,
     column_capacity |-> self.column_capacity,
     state |-> self.state,
     history |-> EmptyMap]

\* what eframe::set_value writes: every field but auto_save (#[serde(skip)]),
\* a BTreeSet as the sequence of its elements
serialize(self) ==
    [column_count |-> self.column_count,
     column_capacity |-> self.column_capacity,
     state |-> self.state,
     history |-> [k \in DOMAIN self.history |-> ascending(self.history[k])]]

\* what eframe::get_value reads back; the skipped field takes its default
deserialize(snapshot) ==
    [column_count |-> snapshot.column_count,
     column_capacity |-> snapshot.column_capacity,
     state |-> snapshot.state,
     history |-> [k \in DOMAIN snapshot.history |->
                    {snapshot.history[k][i] : i \in 1..Len(snapshot.history[k])}],
     auto_save |-> FALSE]

\* the application part of the state in the specifications of the board alone
AppIdle ==
    /\ app = Default
    /\ payload = None
    /\ dragging = FALSE
    /\ storage = None
    /\ late = 0

Columns(s) == 0..(s.column_count - 1)

Rows(s) == 0..(s.column_capacity - 1)

(***************************************************************************)
(* SpecBoard: a board of a valid configuration, built by new and then      *)
(* driven by move_ball with every pair of columns.                         *)
(***************************************************************************)
ValidConfigs ==
    {c \in (1..MaxColumnCount) \X (1..MaxColumnCapacity) : c[1] * c[2] <= MaxSlots}

BoardInit ==
    /\ AppIdle
    /\ args \in ValidConfigs
    /\ board = None
    /\ old = None
    /\ last = [op |-> "init"]

New ==
    /\ board = None
    /\ \E s \in new(args[1], args[2]) : board' = Some(s)
    /\ old' = None
    /\ last' = [op |-> "new", changed |-> 0]
    /\ UNCHANGED <<args, appvars>>

\* last.changed counts the calls of move_ball that changed a slot of the board
MoveBall ==
    /\ board # None
    /\ unwrap(board).play_count < MaxMoves
    /\ \E from_column \in Columns(unwrap(board)), to_column \in Columns(unwrap(board)) :
          /\ board' = Some(move_ball(unwrap(board), from_column, to_column))
          /\ last' = [op |-> "move_ball", from |-> from_column, to |-> to_column,
                       changed |-> last.changed +
                         (IF move_ball(unwrap(board), from_column, to_column).slots
                               # unwrap(board).slots
                          THEN 1 ELSE 0)]
    /\ old' = board
    /\ UNCHANGED <<args, appvars>>

BoardNext == New \/ MoveBall

SpecBoard == BoardInit /\ [][BoardNext]_vars

(***************************************************************************)
(* Spec: the application. Each action but Save and Restart is one frame,   *)
(* the whole of BouleApp::update for one kind of input. While auto_save is *)
(* set auto_save_interval is 0 s: the save is due before the next frame.   *)
(***************************************************************************)
Init ==
    /\ app = Default
    /\ payload = None
    /\ dragging = FALSE
    /\ storage = None
    /\ args = <<DefaultColumnCount, DefaultColumnCapacity>>
    /\ board = None
    /\ old = None
    /\ last = [inserted |-> None]
    /\ late = 0

\* eframe saves once auto_save_interval has passed since the last save: 30 s
\* while auto_save is false, no time at all while it is true, so that the save
\* comes before the next frame; late is the number of frames that may still
\* run ahead of a save that is due (none in Spec)
FrameDue == ~app.auto_save \/ late > 0

\* one frame: the ui left ui_self and reset, the pointer new_payload and new_dragging
Frame(ui_self, reset, new_payload, new_dragging) ==
    LET result == update(app, ui_self, reset)
    IN  /\ FrameDue
        /\ app' = result.self
        /\ last' = [inserted |-> result.inserted]
        /\ payload' = new_payload
        /\ dragging' = new_dragging
        /\ late' = IF app.auto_save THEN late - 1 ELSE late
        /\ UNCHANGED <<storage, args, board, old>>

\* a frame without input
IdleFrame ==
    IF app.state = None
    THEN Frame(setup_ui(app, None, None), FALSE, payload, dragging)
    ELSE Frame(app, FALSE, payload, dragging)

SelectColors ==
    /\ app.state = None
    /\ \E i \in MinColors..MaxColors :
          Frame(setup_ui(app, Some(i), None), FALSE, payload, dragging)

SelectHeight ==
    /\ app.state = None
    /\ \E i \in MinHeight..MaxHeight :
          Frame(setup_ui(app, None, Some(i)), FALSE, payload, dragging)

\* PLAY clicked
Play ==
    /\ app.state = None
    /\ FrameDue
    /\ LET self == setup_ui(app, None, None)
       IN  /\ self.column_count * self.column_capacity <= MaxSlots
           /\ \E s \in new(self.column_count, self.column_capacity) :
                 Frame([self EXCEPT !.state = Some(s)], FALSE, payload, dragging)

\* ABORT clicked: the button of a board that is not winning
Abort ==
    /\ app.state # None
    /\ ~dragging
    /\ is_winning(unwrap(app.state)) = None
    /\ Frame(app, TRUE, payload, dragging)

\* PLAY AGAIN clicked: the button of a winning board
PlayAgain ==
    /\ app.state # None
    /\ ~dragging
    /\ is_winning(unwrap(app.state)) # None
    /\ Frame(app, TRUE, payload, dragging)

\* a drag starts on the cell (row, col) of the board
DragStart ==
    /\ app.state # None
    /\ ~dragging
    /\ \E row \in Rows(unwrap(app.state)), col \in Columns(unwrap(app.state)) :
          Frame(app, FALSE, drag_payload(unwrap(app.state), row, col, payload), TRUE)

\* the pointer is released over a cell of column col
ReleaseOver ==
    /\ app.state # None
    /\ dragging
    /\ payload = None \/ unwrap(app.state).play_count < MaxPlay
    /\ \E col \in Columns(unwrap(app.state)) :
          Frame([app EXCEPT !.state = Some(drop_payload(unwrap(app.state), payload, col))],
                FALSE, None, FALSE)

\* the pointer is released elsewhere: egui drops the payload
ReleaseOutside ==
    /\ app.state # None
    /\ dragging
    /\ Frame(app, FALSE, None, FALSE)

\* BouleApp::save
Save ==
    /\ storage' = Some(serialize(app))
    /\ app' = [app EXCEPT !.auto_save = FALSE]
    /\ last' = [inserted |-> None]
    /\ UNCHANGED <<payload, dragging, args, board, old, late>>

\* the process ends without a save and is started again (run_native, run_web)
Restart ==
    /\ app' = IF storage = None THEN Default ELSE deserialize(unwrap(storage))
    /\ payload' = None
    /\ dragging' = FALSE
    /\ last' = [inserted |-> None]
    /\ UNCHANGED <<storage, args, board, old, late>>

Next ==
    \/ IdleFrame
    \/ SelectColors
    \/ SelectHeight
    \/ Play
    \/ Abort
    \/ PlayAgain
    \/ DragStart
    \/ ReleaseOver
    \/ ReleaseOutside
    \/ Save
    \/ Restart

Spec == Init /\ [][Next]_vars

\* the step is a frame of update. A frame that changes app sets auto_save,
\* which Save and Restart leave FALSE: a step that is a frame and a Save or a
\* Restart as well leaves app as it was.
FrameStep == ~(Save \/ Restart)

(***************************************************************************)
(* SpecLate: Spec with a driver that may run up to MaxLate frames, in all, *)
(* between a frame that set auto_save and the save that follows it.        *)
(***************************************************************************)
LateInit ==
    /\ app = Default
    /\ payload = None
    /\ dragging = FALSE
    /\ storage = None
    /\ args = <<DefaultColumnCount, DefaultColumnCapacity>>
    /\ board = None
    /\ old = None
    /\ last = [inserted |-> None]
    /\ late = MaxLate

LateNext == Next

SpecLate == LateInit /\ [][LateNext]_vars

(***************************************************************************)
(* SpecNew: State::new on every configuration, column_count = 0 and        *)
(* column_capacity = 0 included (usize has no negative values).            *)
(***************************************************************************)
AllConfigs ==
    {c \in (0..MaxColumnCount) \X (0..MaxColumnCapacity) : c[1] * c[2] <= MaxSlots}

NewInit ==
    /\ AppIdle
    /\ args \in AllConfigs
    /\ board = None
    /\ old = None
    /\ last = [op |-> "init"]

NewNext == New

SpecNew == NewInit /\ [][NewNext]_vars

(***************************************************************************)
(* SpecLedger: scores are recorded in history as update records them, for  *)
(* every choice of key and score; old is the list of the records made.     *)
(***************************************************************************)
LedgerKeys == {<<6, 7>>, <<4, 2>>}

ScoreChoices == (0..MaxScore) \cup {25, 30, 40}

LedgerInit ==
    /\ AppIdle
    /\ args = <<DefaultColumnCount, DefaultColumnCapacity>>
    /\ board = None
    /\ old = <<>>
    /\ last = [op |-> "init"]

\* self.history.entry((column_count, column_capacity)).or_default().insert(play_count)
Record ==
    /\ Len(old) < MaxRecords
    /\ \E key \in LedgerKeys, play_count \in ScoreChoices :
          /\ app' = [app EXCEPT !.history = history_insert(@, key, play_count)]
          /\ old' = Append(old, <<key, play_count>>)
          /\ last' = [op |-> "record", key |-> key, play_count |-> play_count]
    /\ UNCHANGED <<args, board, payload, dragging, storage, late>>

LedgerNext == Record

SpecLedger == LedgerInit /\ [][LedgerNext]_vars

(***************************************************************************)
(* Vocabulary of the claims, stated on the slots and not through the       *)
(* functions of State.                                                     *)
(***************************************************************************)
ColumnSlots(s, column) == {slot(s, row, column) : row \in Rows(s)}

HasBall(s, column) == \E row \in Rows(s) : slot(s, row, column) # Empty

IsFull(s, column) == \A row \in Rows(s) : slot(s, row, column) # Empty

AllEmpty(s, column) == \A row \in Rows(s) : slot(s, row, column) = Empty

CountOf(s, v) == Cardinality({i \in 1..Len(s.slots) : s.slots[i] = v})

Monochromatic(s, column) ==
    \A r1 \in Rows(s), r2 \in Rows(s) : slot(s, r1, column) = slot(s, r2, column)

MoveCalled == last.op = "move_ball" /\ old # None /\ board # None

LegalMoveCalled ==
    /\ MoveCalled
    /\ last.from # last.to
    /\ HasBall(unwrap(old), last.from)
    /\ ~IsFull(unwrap(old), last.to)

\* C1: a legal move_ball(a, b) moves exactly the topmost ball of a (the one at
\* first_ball(a)) into first_empty(b), empties the vacated slot, leaves every
\* other slot alone and adds exactly 1 to play_count, whatever the colours.
LegalMoveRelocatesTopBall ==
    LegalMoveCalled =>
        LET o == unwrap(old)
            n == unwrap(board)
            src == slot_index(o, unwrap(first_ball(o, last.from)), last.from)
            dst == slot_index(o, unwrap(first_empty(o, last.to)), last.to)
        IN  /\ first_ball(o, last.from) # None
            /\ first_empty(o, last.to) # None
            /\ \A r \in Rows(o) : r < unwrap(first_ball(o, last.from))
                                    => slot(o, r, last.from) = Empty
            /\ o.slots[src] # Empty
            /\ o.slots[dst] = Empty
            /\ n.slots[dst] = o.slots[src]
            /\ n.slots[src] = Empty
            /\ Len(n.slots) = Len(o.slots)
            /\ \A i \in 1..Len(o.slots) : i \notin {src, dst} => n.slots[i] = o.slots[i]
            /\ n.play_count = o.play_count + 1
            /\ n.column_count = o.column_count
            /\ n.column_capacity = o.column_capacity

\* C1 witness: a legal move has put a ball on top of a ball of another colour
LegalMoveOntoOtherColour ==
    /\ LegalMoveCalled
    /\ LET o == unwrap(old)
           moved == slot(o, unwrap(first_ball(o, last.from)), last.from)
       IN  /\ HasBall(o, last.to)
           /\ slot(o, unwrap(first_ball(o, last.to)), last.to) # moved
           /\ unwrap(board).play_count >= 2

\* C2: move_ball(from, to) changes neither a slot nor play_count when
\* from = to, or column from holds no ball, or column to is full.
IllegalMoveIsNoOp ==
    (/\ MoveCalled
     /\ \/ last.from = last.to
        \/ ~HasBall(unwrap(old), last.from)
        \/ IsFull(unwrap(old), last.to))
        => board = old

\* C2 witness: move_ball(a, a) was called on a column that holds a ball and
\* has room, after earlier moves
SameColumnMoveCalled ==
    /\ MoveCalled
    /\ last.from = last.to
    /\ HasBall(unwrap(old), last.from)
    /\ ~IsFull(unwrap(old), last.from)
    /\ unwrap(old).play_count >= 1

\* C3: gravity: in every column the balls form one run at the bottom (highest
\* row index) end: no Empty slot lies below a ball of the same column.
GravityInvariant ==
    board # None =>
        LET s == unwrap(board)
        IN  \A column \in Columns(s), upper \in Rows(s), lower \in Rows(s) :
                (upper < lower /\ slot(s, upper, column) # Empty)
                    => slot(s, lower, column) # Empty

\* C3 witness: after moves, a column is partly filled, with a ball moved onto
\* a column that was partly filled already
BallStackedOnPartColumn ==
    /\ LegalMoveCalled
    /\ unwrap(board).column_capacity >= 3
    /\ HasBall(unwrap(old), last.to)
    /\ ~IsFull(unwrap(board), last.to)

\* C4: conservation: every board reachable from new(column_count,
\* column_capacity) holds column_capacity balls of each of the column_count-1
\* colours and column_capacity Empty slots.
BallConservation ==
    board # None =>
        LET s == unwrap(board)
        IN  /\ \A c \in 0..(s.column_count - 2) : CountOf(s, Ball(c)) = s.column_capacity
            /\ CountOf(s, Empty) = s.column_capacity
            /\ Len(s.slots) = s.column_count * s.column_capacity

\* C4 witness: legal and illegal calls have both been made on a board of
\* several colours
MovesOfBothKindsMade ==
    /\ MoveCalled
    /\ board = old
    /\ unwrap(board).play_count >= 2
    /\ unwrap(board).column_count >= 3

\* C5: is_winning is Some(play_count) exactly when every column holds one
\* value in all its slots (an all-Empty column included), and None otherwise.
IsWinningIffMonochromatic ==
    board # None =>
        LET s == unwrap(board)
        IN  IF \A column \in Columns(s) : Monochromatic(s, column)
            THEN is_winning(s) = Some(s.play_count)
            ELSE is_winning(s) = None

\* C5 witness: a board of several colours was sorted by moves
WonByMoves ==
    /\ board # None
    /\ is_winning(unwrap(board)) # None
    /\ unwrap(board).play_count >= 1
    /\ unwrap(board).column_count >= 3
    /\ unwrap(board).column_capacity >= 2

(***************************************************************************)
(* The session's lifecycle tag, read off the application.                  *)
(***************************************************************************)
Tag(self) ==
    IF self.state = None THEN "NotStarted"
    ELSE IF is_winning(unwrap(self.state)) # None THEN "Won"
    ELSE "Playing"

Scores(self, key) == IF key \in DOMAIN self.history THEN self.history[key] ELSE {}

ConfigOf(self) == <<self.column_count, self.column_capacity>>

\* C6: the ledger is written once per win transition: a frame inserts exactly
\* when it starts not winning and ends winning, it inserts the board's
\* play_count under the board's configuration, and no frame, save or restart
\* that starts in Won (a reloaded Won session included) inserts again.
RecordedOncePerWin ==
    [][/\ FrameStep =>
            (last'.inserted # None <=> (Tag(app) # "Won" /\ Tag(app') = "Won"))
       /\ (Save \/ Restart) => last'.inserted = None
       /\ last'.inserted # None =>
            /\ last'.inserted = Some(<<ConfigOf(app'), unwrap(app'.state).play_count>>)
            /\ app'.history =
                 history_insert(app.history, ConfigOf(app'), unwrap(app'.state).play_count)
       /\ (FrameStep /\ last'.inserted = None) => app'.history = app.history
       /\ Tag(app') = "Won" =>
            unwrap(app'.state).play_count \in Scores(app', ConfigOf(app'))]_vars

\* C6 witness: a Won session, won by moves, was saved: steps have run on it
\* since the frame that recorded it, and none has inserted
WonSavedWithoutRecord ==
    /\ Tag(app) = "Won"
    /\ last.inserted = None
    /\ unwrap(app.state).play_count >= 1
    /\ storage = Some(serialize(app))

\* C7 as claimed: a frame takes the session only along NotStarted->Playing,
\* Playing->Playing, Playing->Won, Playing->NotStarted, Won->NotStarted (or
\* leaves the tag as it is); start never lands in Won.
OnlyClaimedTransitions ==
    [][FrameStep =>
        \/ Tag(app') = Tag(app)
        \/ <<Tag(app), Tag(app')>> \in
             {<<"NotStarted", "Playing">>, <<"Playing", "Won">>,
              <<"Playing", "NotStarted">>, <<"Won", "NotStarted">>}]_vars

\* C7 as amended: as claimed, but start lands in Won when the shuffle yields
\* a board that is winning already; each transition belongs to its input:
\* start NotStarted->Playing|Won, move Playing->Playing|Won, abort
\* Playing->NotStarted, restart Won->NotStarted; a Won session never returns
\* to Playing.
LifecycleTransitions ==
    [][FrameStep =>
        /\ \/ Tag(app') = Tag(app)
           \/ <<Tag(app), Tag(app')>> \in
                {<<"NotStarted", "Playing">>, <<"NotStarted", "Won">>,
                 <<"Playing", "Won">>,
                 <<"Playing", "NotStarted">>, <<"Won", "NotStarted">>}
        /\ Play => (Tag(app) = "NotStarted" /\ Tag(app') \in {"Playing", "Won"})
        /\ Abort => (Tag(app) = "Playing" /\ Tag(app') = "NotStarted")
        /\ PlayAgain => (Tag(app) = "Won" /\ Tag(app') = "NotStarted")
        /\ (Tag(app) = "Playing" /\ Tag(app') = "Won") => ReleaseOver
        /\ (Tag(app) = "NotStarted" /\ Tag(app') = "Won") =>
              unwrap(app'.state).play_count = 0]_vars

\* C7 witness: start has landed in Won: the frame that built the board
\* recorded the score 0
StartedInWon ==
    /\ Tag(app) = "Won"
    /\ unwrap(app.state).play_count = 0
    /\ last.inserted = Some(<<ConfigOf(app), 0>>)

\* C8: outside Playing no move reaches the board: no payload is pending, and
\* a drag or a release over a column leaves slots, play_count and ledger as
\* they were.
MoveOutsidePlayingIgnored ==
    [][Tag(app) # "Playing" =>
        /\ payload = None
        /\ (DragStart \/ ReleaseOver \/ ReleaseOutside) =>
              /\ app'.state = app.state
              /\ app'.history = app.history
              /\ payload' = None]_vars

\* C8 witness: a drag from a winning board is in progress and carries no
\* payload
DraggingOnWonBoard ==
    /\ Tag(app) = "Won"
    /\ dragging
    /\ payload = None

\* C9: for column_count >= 1 and column_capacity >= 1, every outcome of new
\* has play_count 0, the colours 0..column_count-2 with column_capacity balls
\* each, (column_count-1)*column_capacity balls, the first column_count-1
\* columns full and the last column Empty.
NewBoardShape ==
    (last.op = "new" /\ board # None) =>
        LET s == unwrap(board)
            balls == {i \in 1..Len(s.slots) : s.slots[i] # Empty}
        IN  /\ s.column_count = args[1]
            /\ s.column_capacity = args[2]
            /\ s.play_count = 0
            /\ Len(s.slots) = s.column_count * s.column_capacity
            /\ {s.slots[i] : i \in balls} = {Ball(c) : c \in 0..(s.column_count - 2)}
            /\ \A c \in 0..(s.column_count - 2) : CountOf(s, Ball(c)) = s.column_capacity
            /\ Cardinality(balls) = (s.column_count - 1) * s.column_capacity
            /\ AllEmpty(s, s.column_count - 1)
            /\ \A column \in 0..(s.column_count - 2) : IsFull(s, column)

\* C9 witness: new produced a shuffled board: a column holds two colours
NewBoardShuffled ==
    /\ last.op = "new"
    /\ board # None
    /\ unwrap(board).column_count >= 4
    /\ \E column \in Columns(unwrap(board)) : ~Monochromatic(unwrap(board), column)

\* C10: constructing a board with column_count < 1 or column_capacity < 1 is
\* rejected: no board is produced for such a configuration.
InvalidConfigRejected ==
    (args[1] < 1 \/ args[2] < 1) => board = None

\* the scores the records of log hold for key
Recorded(log, key) == {log[i][2] : i \in {j \in 1..Len(log) : log[j][1] = key}}

StrictlyAscending(seq) == \A i \in 1..Len(seq), j \in 1..Len(seq) : i < j => seq[i] < seq[j]

\* C11: the ledger holds, for each configuration, the set of the scores
\* recorded for it: a score already present changes nothing, the order of the
\* records does not matter, the scores of one configuration are under no
\* other, and iterating a configuration's scores yields each recorded score
\* once, in strictly ascending order (40, 25, 25, 30 for (6,7): 25, 30, 40).
LedgerIsSetPerConfig ==
    /\ DOMAIN app.history = {old[i][1] : i \in 1..Len(old)}
    /\ \A key \in LedgerKeys :
          LET query == ascending(Scores(app, key))
          IN  /\ Scores(app, key) = Recorded(old, key)
              /\ StrictlyAscending(query)
              /\ {query[i] : i \in 1..Len(query)} = Recorded(old, key)
              /\ Len(query) = Cardinality(Recorded(old, key))
    /\ (last.op = "record" /\ last.play_count \in Recorded(SubSeq(old, 1, Len(old) - 1), last.key))
          => \A key \in LedgerKeys :
                Scores(app, key) = Recorded(SubSeq(old, 1, Len(old) - 1), key)
    /\ old = <<<<<<6, 7>>, 40>>, <<<<6, 7>>, 25>>, <<<<6, 7>>, 25>>, <<<<6, 7>>, 30>>>>
          => ascending(Scores(app, <<6, 7>>)) = <<25, 30, 40>>

\* C11 witness: 40, 25, 25, 30 have been recorded for (6,7)
DuplicateScoreRecorded ==
    /\ last.op = "record"
    /\ old = <<<<<<6, 7>>, 40>>, <<<<6, 7>>, 25>>, <<<<6, 7>>, 25>>, <<<<6, 7>>, 30>>>>
    /\ <<4, 2>> \notin DOMAIN app.history

\* every score of history a is a score of history b, under the same key
LedgerWithin(a, b) ==
    \A key \in DOMAIN a : key \in DOMAIN b /\ a[key] \subseteq b[key]

\* the ledger of the stored snapshot, empty while nothing is stored
StoredHistory(st) == IF st = None THEN EmptyMap ELSE deserialize(unwrap(st)).history

\* C12: the ledger never shrinks. Across every frame (start, move, abort,
\* restart of a won game, configuration change, idle) and every save each
\* configuration keeps all its scores; abort and restart discard the board
\* and leave the ledger exactly as it was. The stored ledger never shrinks
\* either, and is always within the ledger in memory.
LedgerNeverShrinks ==
    [][/\ ~Restart => LedgerWithin(app.history, app'.history)
       /\ Save => app'.history = app.history
       /\ Abort => (app'.state = None /\ app'.history = app.history)
       /\ PlayAgain => (app'.state = None /\ app'.history = app.history)
       /\ (FrameStep /\ Tag(app) # "NotStarted" /\ Tag(app') = "NotStarted")
             => app'.history = app.history
       /\ LedgerWithin(StoredHistory(storage), StoredHistory(storage'))
       /\ LedgerWithin(StoredHistory(storage'), app'.history)]_vars

\* C12 witness: a board in play has been aborted while the ledger held a score
AbortedWithScores ==
    /\ app.state = None
    /\ app.auto_save
    /\ DOMAIN app.history # {}
    /\ storage # None
    /\ unwrap(storage).state # None
    /\ is_winning(unwrap(unwrap(storage).state)) = None
    /\ unwrap(unwrap(storage).state).play_count >= 1

\* C13: play_count is the number of move_ball calls made on the board that
\* changed it: a fresh board has play_count 0, each call that changes a slot
\* adds exactly one and a call that changes no slot adds nothing. The score
\* is_winning returns is therefore the number of successful moves.
PlayCountCountsChangingMoves ==
    board # None =>
        /\ unwrap(board).play_count = last.changed
        /\ last.op = "new" => unwrap(board).play_count = 0
        /\ MoveCalled =>
              unwrap(board).play_count = unwrap(old).play_count +
                  (IF unwrap(board).slots # unwrap(old).slots THEN 1 ELSE 0)
        /\ is_winning(unwrap(board)) # None =>
              is_winning(unwrap(board)) = Some(last.changed)

\* C13 witness: a board won by moves after calls that changed nothing, the
\* last call among them
WonAfterRejectedCalls ==
    /\ MoveCalled
    /\ unwrap(board) = unwrap(old)
    /\ last.from # last.to
    /\ is_winning(unwrap(board)) # None
    /\ last.changed >= 2

EmptyRows(s, column) == {row \in Rows(s) : slot(s, row, column) = Empty}

\* C14 as claimed: first_empty(column) is the Empty row of the column with
\* the smallest row index, and None exactly when the column has no Empty slot.
FirstEmptyIsSmallestEmptyRow ==
    board # None =>
        \A column \in Columns(unwrap(board)) :
            first_empty(unwrap(board), column) =
                IF EmptyRows(unwrap(board), column) = {}
                THEN None
                ELSE Some(Min(EmptyRows(unwrap(board), column)))

\* C14 as amended: first_empty(column) is None exactly when the column has no
\* Empty slot; otherwise it is the Empty row farthest from the open end: an
\* Empty row with no Empty row of a larger index, which on a board built by
\* new and move_ball is the row right above the topmost ball (the floor of the
\* column when it holds no ball): the slot a ball moved to the column lands in.
FirstEmptyIsLandingSlot ==
    board # None =>
        \A column \in Columns(unwrap(board)) :
            LET s == unwrap(board)
                found == first_empty(s, column)
            IN  /\ found = None <=> EmptyRows(s, column) = {}
                /\ found # None =>
                      /\ unwrap(found) \in EmptyRows(s, column)
                      /\ \A row \in EmptyRows(s, column) : row <= unwrap(found)
                      /\ \A row \in Rows(s) : row > unwrap(found) => slot(s, row, column) # Empty
                      /\ IF HasBall(s, column)
                         THEN unwrap(found) + 1 = unwrap(first_ball(s, column))
                         ELSE unwrap(found) = s.column_capacity - 1

\* C14 witness: after a move a column holds a ball under two Empty rows or more
ColumnWithSeveralEmptyRows ==
    /\ MoveCalled
    /\ \E column \in Columns(unwrap(board)) :
          /\ HasBall(unwrap(board), column)
          /\ Cardinality(EmptyRows(unwrap(board), column)) >= 2
          /\ first_empty(unwrap(board), column) # Some(0)

\* the step changes the configuration, the board (created, discarded, a slot
\* or play_count) or the ledger
ContentChanged ==
    \/ ConfigOf(app') # ConfigOf(app)
    \/ app'.state # app.state
    \/ app'.history # app.history

\* C15: a frame of update that changes the configuration, the board,
\* play_count or the ledger sets auto_save; a frame that changes none of them
\* leaves auto_save as it was, true included; once set auto_save stays true
\* through every frame until save runs, and right after save it is false with
\* everything else as it was.
DirtyIndicatorProtocol ==
    [][/\ (FrameStep /\ ContentChanged) => app'.auto_save
       /\ (FrameStep /\ ~ContentChanged) => app'.auto_save = app.auto_save
       /\ (FrameStep /\ app.auto_save) => app'.auto_save
       /\ Save => app' = [app EXCEPT !.auto_save = FALSE]
       /\ (app.auto_save /\ ~app'.auto_save) => (Save \/ Restart)]_vars

\* C15 witness: a frame has run while auto_save was set and a save has come
\* after it
SavedAfterLateFrame ==
    /\ late < MaxLate
    /\ ~app.auto_save
    /\ storage = Some(serialize(app))
    /\ app.state # None
    /\ unwrap(app.state).play_count >= 1

\* loading the snapshot of self gives self back, but for auto_save
RoundTrips(self) ==
    LET loaded == deserialize(serialize(self))
    IN  /\ loaded.column_count = self.column_count
        /\ loaded.column_capacity = self.column_capacity
        /\ loaded.state = self.state
        /\ (self.state # None =>
              /\ unwrap(loaded.state).slots = unwrap(self.state).slots
              /\ unwrap(loaded.state).play_count = unwrap(self.state).play_count)
        /\ DOMAIN loaded.history = DOMAIN self.history
        /\ \A key \in DOMAIN self.history : loaded.history[key] = self.history[key]
        /\ loaded.auto_save = FALSE
        /\ "auto_save" \notin DOMAIN serialize(self)

\* C16: saving and then loading gives back column_count, column_capacity, the
\* slots of the board, play_count and the ledger of every application state
\* reached; auto_save is no part of the snapshot and is false after loading,
\* whatever it was when save ran.
SnapshotRoundTrip ==
    [][/\ RoundTrips(app)
       /\ RoundTrips(app')
       /\ Save => /\ storage' = Some(serialize(app))
                  /\ deserialize(unwrap(storage')) = [app EXCEPT !.auto_save = FALSE]
       /\ (Restart /\ storage = Some(serialize(app))) =>
             app' = [app EXCEPT !.auto_save = FALSE]
       /\ (Restart /\ storage # None) =>
             /\ serialize(app') = unwrap(storage)
             /\ ~app'.auto_save]_vars

\* C16 witness: a session in play, with moves made and a score in the ledger,
\* is what the stored snapshot loads to
PlayingSessionStored ==
    /\ storage # None
    /\ app = deserialize(unwrap(storage))
    /\ Tag(app) = "Playing"
    /\ unwrap(app.state).play_count >= 1
    /\ \E key \in DOMAIN app.history : Cardinality(app.history[key]) >= 2

\* the board of self, if there is one, has the configuration of self
BoardOfConfig(self) ==
    self.state # None =>
        /\ unwrap(self.state).column_count = self.column_count
        /\ unwrap(self.state).column_capacity = self.column_capacity
        /\ Len(unwrap(self.state).slots) = self.column_count * self.column_capacity

\* C17: whenever a board exists its column_count and column_capacity are the
\* application's: a frame changes the configuration only with no board before
\* and none after it, a board is built with the configuration of the frame
\* that builds it, and a win is recorded under the key of the won board.
BoardConfigIsAppConfig ==
    [][/\ BoardOfConfig(app)
       /\ BoardOfConfig(app')
       /\ storage' # None => BoardOfConfig(deserialize(unwrap(storage')))
       /\ (FrameStep /\ ConfigOf(app') # ConfigOf(app)) =>
             (app.state = None /\ app'.state = None)
       /\ (FrameStep /\ app.state # None /\ app'.state # None) =>
             /\ unwrap(app'.state).column_count = unwrap(app.state).column_count
             /\ unwrap(app'.state).column_capacity = unwrap(app.state).column_capacity
       /\ last'.inserted # None =>
             unwrap(last'.inserted)[1] = <<unwrap(app'.state).column_count,
                                           unwrap(app'.state).column_capacity>>]_vars

\* C17 witness: a configuration other than the default was chosen, and a
\* board built for it has just been won by moves and recorded
WinRecordedUnderChosenConfig ==
    /\ last.inserted # None
    /\ ConfigOf(app) # <<DefaultColumnCount, DefaultColumnCapacity>>
    /\ app.state # None
    /\ unwrap(app.state).play_count >= 2
    /\ ConfigOf(app) \in DOMAIN app.history

\* C18: on every winning board reached from new(column_count >= 2,
\* column_capacity) exactly one column is entirely Empty, each of the other
\* column_count - 1 columns is full of balls of one colour, and no two columns
\* hold the same colour.
WinningBoardShape ==
    (/\ board # None
     /\ unwrap(board).column_count >= 2
     /\ is_winning(unwrap(board)) # None) =>
        LET s == unwrap(board)
            empties == {column \in Columns(s) : AllEmpty(s, column)}
        IN  /\ Cardinality(empties) = 1
            /\ \A column \in Columns(s) \ empties :
                  /\ IsFull(s, column)
                  /\ Cardinality(ColumnSlots(s, column)) = 1
            /\ \A c1 \in Columns(s) \ empties, c2 \in Columns(s) \ empties :
                  c1 # c2 => ColumnSlots(s, c1) \cap ColumnSlots(s, c2) = {}
            /\ Cardinality({slot(s, 0, column) : column \in Columns(s) \ empties})
                  = s.column_count - 1

\* C18 witness: moves have won a board of three colours or more and columns
\* of two rows or more, the Empty column not where new left it
WonWithEmptyColumnMoved ==
    /\ MoveCalled
    /\ unwrap(old) # unwrap(board)
    /\ is_winning(unwrap(old)) = None
    /\ is_winning(unwrap(board)) # None
    /\ unwrap(board).column_count >= 4
    /\ unwrap(board).column_capacity >= 2
    /\ ~AllEmpty(unwrap(board), unwrap(board).column_count - 1)

\* the board s whatever the number of moves made on it
Unplayed(s) == [s EXCEPT !.play_count = 0]

\* the boards one legal move_ball call away from s: the calls that change it
LegalMoves(s) ==
    {Unplayed(move_ball(s, a, b)) : a \in Columns(s), b \in Columns(s)} \ {Unplayed(s)}

RECURSIVE ReachableFrom(_, _)
\* seen and every board that legal moves reach from the boards of frontier
ReachableFrom(seen, frontier) ==
    IF frontier = {}
    THEN seen
    ELSE LET next == (UNION {LegalMoves(s) : s \in frontier}) \ seen
         IN  ReachableFrom(seen \cup next, next)

RECURSIVE WinnableWithin(_, _)
\* the boards of universe from which legal moves lead into the set won
WinnableWithin(universe, won) ==
    LET more == {s \in universe \ won : LegalMoves(s) \cap won # {}}
    IN  IF more = {} THEN won ELSE WinnableWithin(universe, won \cup more)

\* every board new and legal moves can produce for the configuration c, with
\* a finite sequence of legal moves from it to a winning board
WinnableBoards(c) ==
    LET universe == ReachableFrom(new(c[1], c[2]), new(c[1], c[2]))
    IN  WinnableWithin(universe, {s \in universe : is_winning(s) # None})

\* the boards of every configuration of SpecBoard from which play can be won
SolvableBoards == UNION {WinnableBoards(c) : c \in ValidConfigs}

\* C19: from every board that new(column_count >= 2, column_capacity >= 1)
\* produces and every board legal moves reach from it, some finite sequence of
\* legal move_ball calls reaches a winning board: play has no dead end.
EveryBoardSolvable ==
    (board # None /\ unwrap(board).column_count >= 2) =>
        Unplayed(unwrap(board)) \in SolvableBoards

\* C19 witness: moves have led to a board of three colours that is not
\* winning and that no single move wins
ScrambledBoardInPlay ==
    /\ MoveCalled
    /\ unwrap(board).column_count >= 4
    /\ unwrap(board).column_capacity >= 2
    /\ unwrap(board).play_count >= 3
    /\ is_winning(unwrap(board)) = None
    /\ \A s \in LegalMoves(unwrap(board)) : is_winning(s) = None

====
